---- MODULE Spec2Model ----
(***************************************************************************)
(* Verification model of the pianolizer sliding-DFT analyzer and of its    *)
(* JavaScript wrapper.                                                     *)
(*                                                                         *)
(* Amplitudes are integers (an arbitrary fixed-point unit), complex        *)
(* numbers are pairs <<re, im>> of integers and averages are exact         *)
(* fractions [num, den]; floating-point rounding is outside the model.     *)
(*                                                                         *)
(* The specifications, over one set of variables:                          *)
(*   Spec            the per-sample analysis loop (ring buffer + DFT bins) *)
(*   SpecMA          the Fast and the Heavy moving average                 *)
(*   SpecWrapper     the wrapper's process() around the native analyzer    *)
(*   SpecTuning      construction of an analyzer from a tuning policy      *)
(*   SpecUI          the page script's audio graph and its handlers        *)
(*   SpecDraw        the animation loop: palette, keyboard, spectrogram    *)
(*   SpecSpectrogram the spectrogram's update alone                        *)
(*   SpecDoorbell    the doorbell monitor's capture loop and its alarm     *)
(*   SpecDoorbellFair  the same, alarmReset and the timer making progress  *)
(***************************************************************************)
EXTENDS Integers, Sequences, FiniteSets, TLC

VARIABLES
    rb,              \* the Circular Sample Buffer: [buffer, index]
    dft,             \* per bin: the complex accumulator <<re, im>>
    previousSample,  \* per bin: the old sample handed to the last update
    written,         \* every sample written so far, oldest first (x[1..n])
    maRequest,       \* the averaging window last requested, in samples
    fmaWindow,       \* Fast: the averaging window in samples
    fmaAvg,          \* Fast: per channel, the running value as a fraction
    hmaWindow,       \* Heavy: the effective averaging window in samples
    hmaHistory,      \* Heavy: per channel, the history ring
    hmaSum,          \* Heavy: per channel, the running sum
    raw,             \* per channel, every raw value supplied so far
    maLast,          \* the moving averages' last operation
    keysNum,             \* wrapper: number of keys of the native analyzer
    heapReady,           \* wrapper: a HEAPF32 view of the runtime can be had
    allocated,           \* wrapper: the native buffers currently allocated
    mem,                 \* wrapper: native memory, per address its floats
    samplesBufferSize,   \* wrapper: this.samplesBufferSize
    samplesBuffer,       \* wrapper: this.samplesBuffer
    samplesView,         \* wrapper: this.samplesView
    callerWindow,        \* last call: its averageWindowInSeconds
    callerBefore,        \* last call: the caller's samples when it was made
    callerAfter,         \* last call: the caller's samples afterwards
    nativeInput,         \* last call: the floats the native analyzer read
    levelsOut,           \* last call: the vector returned
    wResult,             \* last call: "none", "returned" or "threw"
    tmSampleRate,    \* tuning: the sample rate given to the constructor
    tmPolicy,        \* tuning: the (frequency, bandwidth) pair of every key
    tmMapping,       \* tuning: the (k, N) list of the constructed analyzer
    tmState,         \* analyzer: "new", "constructed" or "failed"
    tmBlocks,        \* analyzer: number of blocks it has accepted
    audioContext,      \* page: 0 (undefined) or the number of the object
    pianolizer,        \* page: the AudioWorkletNode, likewise
    audioSource,       \* page: the media-element source, likewise
    microphoneSource,  \* page: the media-stream source, likewise
    created,           \* page: per kind, how many objects were created
    connected,         \* page: the connections of the audio graph
    dom,               \* page: paused, playDisabled, restartDisabled, selected
    tasks,             \* page: the handler invocations that called setupAudio
    startOffset,     \* Palette: this.startOffset
    uiLevels,        \* page: levels, per key in halves of full scale
    uiMidi,          \* page: midi, per key in halves of full velocity
    audioColors,     \* last frame: palette.getKeyColors(levels)
    midiColors,      \* last frame: palette.getKeyColors(midi)
    lastDraw,        \* last frame: "none", "painted", "skipped" or "threw"
    animating,       \* the next frame is requested
    keyStyles,       \* PianoKeyboard: per key its fill and stroke
    frames,          \* number of frames drawn
    buf32,           \* Spectrogram: this.buf32, index 0 first
    lastMidiColors,  \* Spectrogram: this.lastMidiColors
    bufBefore,       \* last update: buf32 when it was called
    lastMidiBefore,  \* last update: lastMidiColors when it was called
    alarmTriggered,  \* doorbell: volatile sig_atomic_t alarmTriggered
    shouldExit,      \* doorbell: volatile sig_atomic_t shouldExit
    alarmPending,    \* doorbell: the kernel holds an armed alarm()
    loopPc,          \* doorbell: the capture loop's position
    reads,           \* doorbell: number of snd_pcm_readi calls made
    input,           \* doorbell: the number of the block held in input
    output,          \* doorbell: << output[0], output[1] >> in tenths
    message,         \* doorbell: the notification about to be pushed
    captured,        \* doorbell: the reads that returned BUFFER_SIZE
    processed,       \* doorbell: the blocks passed to sdft.process
    bellLog,         \* doorbell: armings, SIGALRM deliveries, notifications
    notified         \* doorbell: per notification pushed, its block and text

dftVars == << rb, dft, previousSample, written >>

wVars == << keysNum, heapReady, allocated, mem, samplesBufferSize,
            samplesBuffer, samplesView, callerWindow, callerBefore,
            callerAfter, nativeInput, levelsOut, wResult >>

tmVars == << tmSampleRate, tmPolicy, tmMapping, tmState, tmBlocks >>

\* the components added to the three first ones
uiVars == << audioContext, pianolizer, audioSource, microphoneSource,
             created, connected, dom, tasks >>

vizVars == << startOffset, uiLevels, uiMidi, audioColors, midiColors,
              lastDraw, animating, keyStyles, frames, buf32, lastMidiColors, bufBefore,
              lastMidiBefore >>

bellVars == << alarmTriggered, shouldExit, alarmPending, loopPc, reads, input,
              output, message, captured, processed, bellLog, notified >>

laterVars == << tmVars, uiVars, vizVars, bellVars >>

maVars == << maRequest, fmaWindow, fmaAvg, hmaWindow, hmaHistory, hmaSum,
             raw, maLast >>

(***************************************************************************)
(* Bounds and input alphabets                                              *)
(***************************************************************************)
MaxSamples == 7

SampleValues == {-1, 0, 1, 2}

\* moving averages: number of updates, largest window request (in quarter
\* seconds) and the preallocated Heavy window (500 in testMovingAverage)
MaxUpdates == 4

MaxWindowRequest == 5

MaxWindow == 2

\* const sampleRate = 44100, scaled down to 2 samples per second
SampleRate == 2

LevelValues == {0, 1}

\* wrapper: longest block passed to process
MaxBlock == 2

\* wrapper: default number of keys; keys of the two-tone doorbell tuning
KeysNumDefault == 61

DoorbellKeys == 2

(***************************************************************************)
(* Small helpers                                                           *)
(***************************************************************************)
Max(a, b) == IF a >= b THEN a ELSE b

Min(a, b) == IF a <= b THEN a ELSE b

Abs(a) == IF a >= 0 THEN a ELSE -a

(***************************************************************************)
(* Tuning: the ordered (k, N) list.  Every bin has a rotation with integer *)
(* components (N divides 4k), so the arithmetic below is exact.            *)
(***************************************************************************)
Tuning == << [k |-> 1, N |-> 2], [k |-> 1, N |-> 4], [k |-> 3, N |-> 4] >>

BinIds == 1..Len(Tuning)

RECURSIVE MaxNUpTo(_)
MaxNUpTo(i) == IF i = 0 THEN 0 ELSE Max(Tuning[i].N, MaxNUpTo(i - 1))

\* the buffer is sized to the largest lookback of any bin
MaxN == MaxNUpTo(Len(Tuning))

(***************************************************************************)
(* Circular Sample Buffer.  Capacity C is fixed at construction; lags      *)
(* 0..C are readable, so the ring keeps C + 1 slots, all zero at first.    *)
(* index is the slot the next write goes to.                               *)
(***************************************************************************)
RingBuffer(requestedSize) ==
    [ buffer |-> [i \in 0..requestedSize |-> 0],
      index  |-> 0 ]

RBCapacity(r) == Cardinality(DOMAIN r.buffer) - 1

RBSlots(r) == Cardinality(DOMAIN r.buffer)

\* a write that does not advance the index
RBWriteStuck(r, value) ==
    [ r EXCEPT !.buffer[r.index] = value ]

RBWrite(r, value) ==
    [ buffer |-> [r.buffer EXCEPT ![r.index] = value],
      index  |-> (r.index + 1) % RBSlots(r) ]

RBRead(r, lag) ==
    r.buffer[(r.index - 1 - lag) % RBSlots(r)]

(***************************************************************************)
(* Frequency Bin Tracker                                                   *)
(***************************************************************************)
CAdd(a, b) == << a[1] + b[1], a[2] + b[2] >>

CMul(a, b) == << a[1] * b[1] - a[2] * b[2], a[1] * b[2] + a[2] * b[1] >>

\* W = e^{i 2 pi k / N} for a whole number of quarter turns
Coeff(k, N) ==
    LET q == ((4 * k) \div N) % 4
    IN  CASE q = 0 -> << 1, 0 >>
          [] q = 1 -> << 0, 1 >>
          [] q = 2 -> << -1, 0 >>
          [] OTHER -> << 0, -1 >>

RECURSIVE CPow(_, _)
CPow(w, e) == IF e = 0 THEN << 1, 0 >> ELSE CMul(w, CPow(w, e - 1))

\* X[n] = (X[n-1] + x[n] - x[n-N]) * W
DFTUpdate(X, w, oldSample, newSample) ==
    CMul(<< X[1] + newSample - oldSample, X[2] >>, w)

(***************************************************************************)
(* The analysis loop (testDFT, generalised to the bins of Tuning)          *)
(***************************************************************************)
\* the ring is asked for one slot too few
RequestedSizeShort == MaxN - 1

\* new RingBuffer(N)
RequestedSize == MaxN

\* the lookback is off by one
LagShort(b) == Tuning[b].N - 1

\* rb.read(N)
Lag(b) == Tuning[b].N

\* the lagged sample is read before the new one is written
StepReadFirst(x) ==
    /\ Len(written) < MaxSamples
    /\ rb' = RBWrite(rb, x)
    /\ previousSample' = [b \in BinIds |-> RBRead(rb, Lag(b))]
    /\ dft' = [b \in BinIds |->
                 DFTUpdate(dft[b], Coeff(Tuning[b].k, Tuning[b].N),
                           previousSample'[b], x)]
    /\ written' = Append(written, x)

\* one iteration: write x[n], then per bin read x[n-N] and update
Step(x) ==
    /\ Len(written) < MaxSamples
    /\ rb' = RBWrite(rb, x)
    /\ previousSample' = [b \in BinIds |-> RBRead(rb', Lag(b))]
    /\ dft' = [b \in BinIds |->
                 DFTUpdate(dft[b], Coeff(Tuning[b].k, Tuning[b].N),
                           previousSample'[b], x)]
    /\ written' = Append(written, x)

ProcessSample ==
    /\ \E x \in SampleValues : Step(x)
    /\ UNCHANGED << maVars, wVars, laterVars >>

(***************************************************************************)
(* Moving averages.  A window is requested in seconds (here in quarters    *)
(* of a second) and converted with the sample rate.                        *)
(***************************************************************************)
Channels == 1..2

RECURSIVE GCD(_, _)
GCD(a, b) == IF b = 0 THEN a ELSE GCD(b, a % b)

\* a fraction in lowest terms, den > 0
Frac(num, den) ==
    LET g == GCD(Abs(num), den)
    IN  [num |-> num \div g, den |-> den \div g]

FracEq(f, v) == f.num = v * f.den

\* | v - f |, as a fraction
FracDist(f, v) == Frac(Abs(v * f.den - f.num), f.den)

FracLess(f, g) == f.num * g.den < g.num * f.den

\* Math.round(seconds * sampleRate) for seconds = q / 4 (halves round up)
SecondsToSamples(q) == (2 * q * SampleRate + 4) \div 8

\* Fast: avg <- avg + alpha * (value - avg), alpha = 1 / window; a window
\* shorter than one sample passes the value through
\* alpha is taken as 1 for every window
FMAUpdatePassthrough(avg, window, value) == Frac(value, 1)

FMAUpdate(avg, window, value) ==
    IF window = 0 THEN Frac(value, 1)
    ELSE Frac(avg.num * (window - 1) + value * avg.den, avg.den * window)

FMARead(ch) == fmaAvg[ch]

\* Heavy: the window is clamped to the preallocated capacity
HMAClampNone(samples) == samples

HMAClamp(samples) == Min(samples, MaxWindow)

\* the sum of the `window` latest values of a history ring
RECURSIVE HMASumOf(_, _)
HMASumOf(history, window) ==
    IF window = 0 THEN 0
    ELSE RBRead(history, window - 1) + HMASumOf(history, window - 1)

\* the window index is changed and the running sum is left as it was
HMARederiveKeep(ch, window) == hmaSum[ch]

\* the running sum re-derived for a new window; the ring is only read
HMARederive(ch, window) == HMASumOf(hmaHistory[ch], window)

\* add the new value, subtract the one leaving the window
\* (history already holds the new value)
HMAUpdateSum(sum, history, window, value) ==
    sum + value - RBRead(history, window)

\* the mean is computed for every window, also for a window of 0 samples
HMAReadNoGuard(ch) == [num |-> hmaSum[ch], den |-> hmaWindow]

\* sum / window; a window of 0 samples reads the latest raw value
HMARead(ch) ==
    IF hmaWindow = 0
    THEN [num |-> RBRead(hmaHistory[ch], 0), den |-> 1]
    ELSE [num |-> hmaSum[ch], den |-> hmaWindow]

\* fma.averageWindowInSeconds = q; hma.averageWindowInSeconds = q
SetAverageWindow(q) ==
    /\ maRequest' = SecondsToSamples(q)
    /\ fmaWindow' = SecondsToSamples(q)
    /\ hmaWindow' = HMAClamp(SecondsToSamples(q))
    /\ hmaSum' = [ch \in Channels |-> HMARederive(ch, hmaWindow')]
    /\ maLast' = "window"
    /\ UNCHANGED << fmaAvg, hmaHistory, raw >>

\* fma.update(sample); hma.update(sample)
Update(values) ==
    /\ Len(raw[1]) < MaxUpdates
    /\ fmaAvg' = [ch \in Channels |->
                    FMAUpdate(fmaAvg[ch], fmaWindow, values[ch])]
    /\ hmaHistory' = [ch \in Channels |-> RBWrite(hmaHistory[ch], values[ch])]
    /\ hmaSum' = [ch \in Channels |->
                    HMAUpdateSum(hmaSum[ch], hmaHistory'[ch], hmaWindow,
                                 values[ch])]
    /\ raw' = [ch \in Channels |-> Append(raw[ch], values[ch])]
    /\ maLast' = "update"
    /\ UNCHANGED << maRequest, fmaWindow, hmaWindow >>

ChangeWindow ==
    /\ \E q \in 0..MaxWindowRequest : SetAverageWindow(q)
    /\ UNCHANGED << dftVars, wVars, laterVars >>

UpdateAverages ==
    /\ \E values \in [Channels -> LevelValues] : Update(values)
    /\ UNCHANGED << dftVars, wVars, laterVars >>

InitMA ==
    /\ maRequest = 0
    /\ fmaWindow = 0
    /\ fmaAvg = [ch \in Channels |-> Frac(0, 1)]
    /\ hmaWindow = 0
    /\ hmaHistory = [ch \in Channels |-> RingBuffer(MaxWindow)]
    /\ hmaSum = [ch \in Channels |-> 0]
    /\ raw = [ch \in Channels |-> << >>]
    /\ maLast = "init"

(***************************************************************************)
(* The wrapper around the native analyzer (pianolizer-wrapper.js)          *)
(***************************************************************************)
\* JavaScript's undefined, for a size, a pointer and a view
Undefined == 0 - 1

UndefinedView == [ptr |-> Undefined, len |-> 0]

Pointers == {1, 2}

BlockValues == {0, 1}

Blocks == UNION { [1..len -> BlockValues] : len \in 0..MaxBlock }

\* the native analyzer's level vector: one entry per tracked key, raw or,
\* with averageWindowInSeconds > 0, smoothed
NativeLevels(keys, hot, level) ==
    [i \in 1..keys |-> IF i = hot THEN level ELSE 0]

\* the block length instead of the number of keys
LevelsCopyShort(levels, block) ==
    [i \in 1..Len(block) |-> IF i <= Len(levels) THEN levels[i] ELSE 0]

\* new Float32Array(levels)
LevelsCopy(levels, block) == [i \in 1..Len(levels) |-> levels[i]]

\* samples[i] = 0 for i < samplesBufferSize
ClearedSamples(samples, size) ==
    [i \in 1..Len(samples) |-> IF i <= size THEN 0 ELSE samples[i]]

\* samplesView[i] = samples[i] for i < samplesBufferSize, through a view
\* of region ptr (stores beyond the view or the block are dropped)
ViewStore(m, view, samples, size) ==
    [m EXCEPT ![view.ptr] =
        [i \in 1..Len(m[view.ptr]) |->
            IF i <= size /\ i <= view.len /\ i <= Len(samples)
            THEN samples[i] ELSE m[view.ptr][i]]]

\* the floats at a buffer, as the native analyzer reads them
NativeRead(m, ptr, size) ==
    [i \in 1..size |-> IF i <= Len(m[ptr]) THEN m[ptr][i] ELSE 0]

\* the buffer is kept allocated
FreeSkipped(live, ptr) == live

\* if (this.samplesBuffer !== undefined) Module._free(this.samplesBuffer)
Free(live, ptr) == IF ptr = Undefined THEN live ELSE live \ {ptr}

\* process(samples, averageWindowInSeconds): adjustSamplesBuffer, the copy
\* loop, the native call and the copy of its result
Process(samples, w, hot, level, newPtr, fill) ==
    LET len      == Len(samples)
        same     == samplesBufferSize = len
        kept     == Free(allocated, samplesBuffer)
        adjThrew == ~ same /\ ~ heapReady
        size1    == len
        buffer1  == IF same THEN samplesBuffer ELSE newPtr
        alloc1   == IF same THEN allocated ELSE kept \cup {newPtr}
        mem1     == IF same THEN mem
                    ELSE [mem EXCEPT ![newPtr] = [i \in 1..len |-> fill]]
        view1    == IF same \/ adjThrew THEN samplesView
                    ELSE [ptr |-> newPtr, len |-> len]
        \* samplesView[0] = ... on an undefined view is a TypeError
        copyThrew == ~ adjThrew /\ view1 = UndefinedView /\ size1 > 0
        mem2     == IF adjThrew \/ copyThrew \/ view1 = UndefinedView THEN mem1
                    ELSE ViewStore(mem1, view1, samples, size1)
        threw    == adjThrew \/ copyThrew
    IN  /\ ~ same => newPtr \notin kept
        \* choices that cannot matter are fixed: no allocation, or an
        \* allocation that the copy loop overwrites whole
        /\ same => newPtr = 1
        /\ ~ adjThrew => fill = 0
        /\ (threw \/ level = 0) => hot = 1
        /\ threw => level = 0
        /\ samplesBufferSize' = size1
        /\ samplesBuffer' = buffer1
        /\ allocated' = alloc1
        /\ samplesView' = view1
        /\ mem' = mem2
        /\ callerWindow' = w
        /\ callerBefore' = samples
        /\ callerAfter' = IF threw THEN samples
                          ELSE ClearedSamples(samples, size1)
        /\ nativeInput' = IF threw THEN << >>
                          ELSE NativeRead(mem2, buffer1, size1)
        /\ levelsOut' = IF threw THEN << >>
                        ELSE LevelsCopy(NativeLevels(keysNum, hot, level),
                                        samples)
        /\ wResult' = IF threw THEN "threw" ELSE "returned"
        /\ UNCHANGED << keysNum, heapReady >>

ProcessBlock ==
    /\ \E samples \in Blocks, w \in {0, 1}, hot \in {1, keysNum},
          level \in LevelValues, newPtr \in Pointers, fill \in BlockValues :
            Process(samples, w, hot, level, newPtr, fill)
    /\ UNCHANGED << dftVars, maVars, laterVars >>

\* the runtime publishes its memory (Module.HEAPF32, HEAPF32 or wasmMemory)
RuntimeInitialized ==
    /\ ~ heapReady
    /\ heapReady' = TRUE
    /\ UNCHANGED << keysNum, allocated, mem, samplesBufferSize,
                    samplesBuffer, samplesView, callerWindow, callerBefore,
                    callerAfter, nativeInput, levelsOut, wResult >>
    /\ UNCHANGED << dftVars, maVars, laterVars >>

InitWrapper ==
    /\ keysNum \in {KeysNumDefault, DoorbellKeys}
    /\ heapReady \in BOOLEAN
    /\ allocated = {}
    /\ mem = [p \in Pointers |-> << >>]
    /\ samplesBufferSize = Undefined
    /\ samplesBuffer = Undefined
    /\ samplesView = UndefinedView
    /\ callerWindow = 0
    /\ callerBefore = << >>
    /\ callerAfter = << >>
    /\ nativeInput = << >>
    /\ levelsOut = << >>
    /\ wResult = "none"

(***************************************************************************)
(* Tuning Mapper and construction of the analyzer.  Frequencies and        *)
(* bandwidths are whole numbers of Hz.                                     *)
(***************************************************************************)
\* #define SAMPLE_RATE 8000, #define BANDWIDTH 2.
DoorbellSampleRate == 8000

DoorbellBandwidth == 2

MaxSampleRate == 7

MaxFrequency == 4

MaxBandwidth == 5

SampleRates == (-1..MaxSampleRate) \cup {DoorbellSampleRate}

\* DoorbellTuning::mapping: 727 Hz and 977 Hz, BANDWIDTH each
DoorbellPolicy ==
    << [f |-> 727, bw |-> DoorbellBandwidth],
       [f |-> 977, bw |-> DoorbellBandwidth] >>

PolicyPairs ==
    [f : -1..MaxFrequency, bw : 1..MaxBandwidth]
        \cup { DoorbellPolicy[i] : i \in 1..Len(DoorbellPolicy) }

\* an explicit list of (frequency, bandwidth) pairs, one per key
Policies == UNION { [1..n -> PolicyPairs] : n \in 1..DoorbellKeys }

\* round(a / b) for b > 0, halves away from zero
Round(a, b) ==
    IF a >= 0 THEN (2 * a + b) \div (2 * b)
    ELSE 0 - ((2 * (0 - a) + b) \div (2 * b))

\* k is rounded down
KAndNFloorK(rate, f, bw) ==
    LET N == Round(rate, bw)
    IN  [k |-> (f * N) \div rate, N |-> N]

\* frequencyAndBandwidthToKAndN(f, bw):
\* N = round(sampleRate / bw), k = round(f * N / sampleRate)
frequencyAndBandwidthToKAndN(rate, f, bw) ==
    LET N == Round(rate, bw)
    IN  [k |-> Round(f * N, rate), N |-> N]

\* the ordered (k, N) list of a policy
mapping(rate, policy) ==
    [i \in 1..Len(policy) |->
        frequencyAndBandwidthToKAndN(rate, policy[i].f, policy[i].bw)]

\* invariant of the bin parameters: N > 0, 0 <= k < N
ValidBin(bin) == bin.N > 0 /\ bin.k >= 0 /\ bin.k < bin.N

\* every configuration is taken as it comes
ValidConfigurationAny(rate, policy) == rate > 0

ValidConfiguration(rate, policy) ==
    /\ rate > 0
    /\ \A i \in 1..Len(policy) : ValidBin(mapping(rate, policy)[i])

\* SlidingDFT(tuning, ...): the mapping is computed once; an invalid
\* configuration is a fatal error and leaves no analyzer
Construct(policy) ==
    /\ tmState = "new"
    /\ tmPolicy' = policy
    /\ IF ValidConfiguration(tmSampleRate, policy)
       THEN /\ tmState' = "constructed"
            /\ tmMapping' = mapping(tmSampleRate, policy)
       ELSE /\ tmState' = "failed"
            /\ tmMapping' = << >>
    /\ UNCHANGED << tmSampleRate, tmBlocks >>

\* process(samples, ...), of a constructed analyzer only
AcceptBlock ==
    /\ tmState = "constructed"
    /\ tmBlocks < MaxBlock
    /\ tmBlocks' = tmBlocks + 1
    /\ UNCHANGED << tmSampleRate, tmPolicy, tmMapping, tmState >>

ConstructAnalyzer ==
    /\ \E policy \in Policies : Construct(policy)
    /\ UNCHANGED << dftVars, maVars, wVars, uiVars, vizVars, bellVars >>

ProcessAccepted ==
    /\ AcceptBlock
    /\ UNCHANGED << dftVars, maVars, wVars, uiVars, vizVars, bellVars >>

InitTuning ==
    /\ tmSampleRate \in SampleRates
    /\ tmPolicy = << >>
    /\ tmMapping = << >>
    /\ tmState = "new"
    /\ tmBlocks = 0

\* the doorbell's analyzer, not yet constructed
IdleTuning ==
    /\ InitTuning
    /\ tmSampleRate = DoorbellSampleRate

(***************************************************************************)
(* The page script: audio graph setup and the handlers that call it.       *)
(* A handler runs to its first pending await in one step; what follows an  *)
(* await of a settled promise runs before any other event, in that step.   *)
(* An object variable holds 0 (undefined) or the number of the object.     *)
(***************************************************************************)
MaxInvocations == 3

SRC_TO_NODE == "audioSource->pianolizer"

SRC_TO_DEST == "audioSource->destination"

MIC_TO_NODE == "microphoneSource->pianolizer"

\* sourceSelect values the user can choose: an audio URL, '*' + deviceId,
\* '/' (local file), '#' (MIDI input only)
SourceChoices == {"url", "microphone", "local", "midi"}

Page ==
    [ audioContext |-> audioContext, pianolizer |-> pianolizer,
      audioSource |-> audioSource, microphoneSource |-> microphoneSource,
      created |-> created, connected |-> connected, dom |-> dom,
      tasks |-> tasks ]

Commit(pg) ==
    /\ audioContext' = pg.audioContext
    /\ pianolizer' = pg.pianolizer
    /\ audioSource' = pg.audioSource
    /\ microphoneSource' = pg.microphoneSource
    /\ created' = pg.created
    /\ connected' = pg.connected
    /\ dom' = pg.dom
    /\ tasks' = pg.tasks

\* the audio graph is fully initialized
GraphReady(pg) ==
    /\ pg.audioContext # 0 /\ pg.pianolizer # 0 /\ pg.audioSource # 0
    /\ SRC_TO_NODE \in pg.connected /\ SRC_TO_DEST \in pg.connected

\* setupAudio, after the if: audioSource.connect(audioContext.destination)
\* and the two parameters; on an undefined audioSource a TypeError
SetupAudioTail(pg) ==
    IF pg.audioSource = 0 \/ pg.pianolizer = 0
    THEN [page |-> pg, outcome |-> "rejected"]
    ELSE [page |-> [pg EXCEPT !.connected = @ \cup {SRC_TO_DEST}],
          outcome |-> "resolved"]

\* setupAudio up to its first await: the context is created if there is
\* none, else the body of the if is skipped
SetupAudioStart(pg) ==
    IF pg.audioContext = 0
    THEN [page |-> [pg EXCEPT !.audioContext = pg.created.audioContext + 1,
                              !.created.audioContext = @ + 1],
          outcome |-> "pending"]
    ELSE SetupAudioTail(pg)

\* setupAudio after addModule: the worklet node and the media-element
\* source are created and connected, then the tail
SetupAudioLoaded(pg) ==
    SetupAudioTail(
        [pg EXCEPT !.pianolizer = pg.created.pianolizer + 1,
                   !.created.pianolizer = @ + 1,
                   !.audioSource = pg.created.audioSource + 1,
                   !.created.audioSource = @ + 1,
                   !.connected = @ \cup {SRC_TO_NODE}])

\* playToggle.onclick after await setupAudio(): audioElement.play()
PlayContinue(pg, i) ==
    [pg EXCEPT !.dom.paused = FALSE, !.tasks[i].pc = "done"]

\* setupMicrophone after await setupAudio(): the source is taken off the
\* destination (an error if it is not connected), then the microphone is
\* connected, or requested if there is none yet
MicContinue(pg, i) ==
    IF SRC_TO_DEST \notin pg.connected
    THEN [pg EXCEPT !.tasks[i].pc = "done"]
    ELSE IF pg.microphoneSource = 0
         THEN [pg EXCEPT !.connected = @ \ {SRC_TO_DEST},
                         !.tasks[i].pc = "getUserMedia"]
         ELSE [pg EXCEPT !.connected = (@ \ {SRC_TO_DEST}) \cup {MIC_TO_NODE},
                         !.tasks[i].pc = "done"]

\* the promise of invocation i settles (or stays pending) and its caller
\* goes on
Settled(pg, i, outcome) ==
    LET pg1 == [pg EXCEPT !.tasks[i].setupAudio = outcome,
                          !.tasks[i].ready = GraphReady(pg)]
    IN  CASE outcome = "pending" -> pg
          [] outcome = "rejected" -> [pg1 EXCEPT !.tasks[i].pc = "done"]
          [] outcome = "resolved" /\ pg.tasks[i].caller = "play" ->
                 PlayContinue(pg1, i)
          [] OTHER -> MicContinue(pg1, i)

\* a handler calls setupAudio
Invoke(pg, caller) ==
    LET i   == Len(pg.tasks) + 1
        pg0 == [pg EXCEPT !.tasks =
                   Append(@, [caller |-> caller, pc |-> "fetch",
                              setupAudio |-> "pending", ready |-> FALSE])]
        r   == SetupAudioStart(pg0)
    IN  Settled(r.page, i, r.outcome)

\* playToggle.onclick
ClickPlay ==
    /\ ~ dom.playDisabled
    /\ IF dom.paused
       THEN /\ Len(tasks) < MaxInvocations
            /\ Commit(Invoke(Page, "play"))
       ELSE Commit([Page EXCEPT !.dom.paused = TRUE])
    /\ UNCHANGED << dftVars, maVars, wVars, tmVars, vizVars, bellVars >>

\* playRestart.onclick: audioElement.load()
ClickRestart ==
    /\ ~ dom.restartDisabled
    /\ Commit([Page EXCEPT !.dom.paused = TRUE])
    /\ UNCHANGED << dftVars, maVars, wVars, tmVars, vizVars, bellVars >>

\* sourceSelect.onchange
SourceChanged(v) ==
    LET pg1 == [Page EXCEPT !.dom.paused = TRUE, !.dom.selected = v]
    IN  IF v = "microphone"
        THEN /\ Len(tasks) < MaxInvocations
             /\ Commit(Invoke([pg1 EXCEPT !.dom.playDisabled = TRUE,
                                          !.dom.restartDisabled = TRUE],
                              "mic"))
        ELSE Commit([pg1 EXCEPT !.dom.playDisabled = (v = "midi"),
                                !.dom.restartDisabled = (v = "midi"),
                                !.connected = @ \ {MIC_TO_NODE}])

\* the user picks another entry (another microphone only while no
\* microphone has been granted: the other ones are disabled then)
SelectSource ==
    /\ \E v \in SourceChoices :
           /\ v = dom.selected =>
                  \/ v = "url"
                  \/ v = "microphone" /\ microphoneSource = 0
           /\ SourceChanged(v)
    /\ UNCHANGED << dftVars, maVars, wVars, tmVars, vizVars, bellVars >>

\* pianolizerUI.ondrop with an audio file
DropFile ==
    /\ Commit([Page EXCEPT !.dom.paused = TRUE, !.dom.selected = "dropped"])
    /\ UNCHANGED << dftVars, maVars, wVars, tmVars, vizVars, bellVars >>

\* await Promise.all([fetchText(...), fetchText(...)]) completes
FetchDone ==
    /\ \E i \in 1..Len(tasks) :
           /\ tasks[i].pc = "fetch"
           /\ Commit([Page EXCEPT !.tasks[i].pc = "addModule"])
    /\ UNCHANGED << dftVars, maVars, wVars, tmVars, vizVars, bellVars >>

\* await audioContext.audioWorklet.addModule(...) completes
ModuleAdded ==
    /\ \E i \in 1..Len(tasks) :
           /\ tasks[i].pc = "addModule"
           /\ LET r == SetupAudioLoaded(Page)
              IN  Commit(Settled(r.page, i, r.outcome))
    /\ UNCHANGED << dftVars, maVars, wVars, tmVars, vizVars, bellVars >>

\* getUserMedia grants a stream: the microphone source is created and
\* connected
MicrophoneGranted ==
    /\ \E i \in 1..Len(tasks) :
           /\ tasks[i].pc = "getUserMedia"
           /\ Commit([Page EXCEPT
                  !.microphoneSource = created.microphoneSource + 1,
                  !.created.microphoneSource = @ + 1,
                  !.connected = @ \cup {MIC_TO_NODE},
                  !.tasks[i].pc = "done"])
    /\ UNCHANGED << dftVars, maVars, wVars, tmVars, vizVars, bellVars >>

\* getUserMedia is refused: window.alert
MicrophoneDenied ==
    /\ \E i \in 1..Len(tasks) :
           /\ tasks[i].pc = "getUserMedia"
           /\ Commit([Page EXCEPT !.tasks[i].pc = "done"])
    /\ UNCHANGED << dftVars, maVars, wVars, tmVars, vizVars, bellVars >>

InitUI ==
    /\ audioContext = 0
    /\ pianolizer = 0
    /\ audioSource = 0
    /\ microphoneSource = 0
    /\ created = [audioContext |-> 0, pianolizer |-> 0, audioSource |-> 0,
                  microphoneSource |-> 0]
    /\ connected = {}
    /\ dom = [paused |-> TRUE, playDisabled |-> FALSE,
              restartDisabled |-> FALSE, selected |-> "url"]
    /\ tasks = << >>

(***************************************************************************)
(* Visualization: Palette, PianoKeyboard.update, Spectrogram and the       *)
(* animation loop.  A level is counted in halves of full scale (3 is 1.5); *)
(* a key colour is the number a Uint32Array holds (below 2^31 for every   *)
(* level here); a pixel of buf32 is the pair << top byte, low 24 bits >>.  *)
(***************************************************************************)
MaxRotation == 3

\* frames drawn by the animation loop; direct calls of Spectrogram.update
MaxDraws == 2

MaxFrames == 3

\* palette.json: RGB tuples (here three of them)
PaletteData == << << 255, 0, 0 >>, << 0, 255, 0 >>, << 128, 200, 255 >> >>

\* pianoKeyboard.keySlices: per key its width in pixels (here two keys)
keySlices == << 3, 2 >>

VizKeys == 1..Len(keySlices)

\* parseInt(searchParams.get(HEIGHT)) || 600, scaled down
height == 3

\* what the worklet and the MIDI inputs deliver
LevelVectors == { << 0, 0 >>, << 2, 1 >>, << 3, 2 >> }

Pow2(n) == 2 ^ n

\* a | b for non-negative a, b
RECURSIVE BitOr(_, _)
BitOr(a, b) ==
    IF a = 0 THEN b
    ELSE IF b = 0 THEN a
    ELSE (IF a % 2 = 1 \/ b % 2 = 1 THEN 1 ELSE 0)
             + 2 * BitOr(a \div 2, b \div 2)

\* a % b of JavaScript: the sign of the dividend
JSRem(a, b) == IF a >= 0 THEN a % b ELSE 0 - ((0 - a) % b)

\* Math.round(level * value) | 0 for level = h / 2, value >= 0
RoundScaled(h, value) == (h * value + 1) \div 2

\* set rotation (n): this.startOffset = n | 0
RotationSetter(n) == n

\* this.palette[index % paletteLength] is undefined for some key, and
\* .map on it is a TypeError
GetKeyColorsThrows(offset, lv) ==
    \E key \in 0..(Len(lv) - 1) : JSRem(offset + key, Len(PaletteData)) < 0

\* the palette entry scaled by a level:
\* (rgbArray[2] << 16) | (rgbArray[1] << 8) | rgbArray[0]
Packed(rgb, h) ==
    LET c(i) == RoundScaled(h, rgb[i])
    IN  BitOr(BitOr(c(3) * Pow2(16), c(2) * Pow2(8)), c(1))

KeyColor(offset, lv, key) ==
    Packed(PaletteData[JSRem(offset + key, Len(PaletteData)) + 1],
           lv[key + 1])

\* getKeyColors(levels), when it returns
GetKeyColors(offset, lv) ==
    [k \in 1..Len(lv) |-> KeyColor(offset, lv, k - 1)]

\* bgrIntegerToHex(bgrInteger, start): the three channels of '#rrggbb'
bgrIntegerToHex(bgrInteger, start) ==
    LET ch(i) == (bgrInteger \div Pow2(8 * (i - 1))) % 256
    IN  [i \in 1..3 |-> (2 * (255 * start + ch(i) * (255 - start)) + 255)
                            \div 510]

\* keySlices.reduce((a, b) => a + b)
RECURSIVE SumSlices(_)
SumSlices(n) == IF n = 0 THEN 0 ELSE keySlices[n] + SumSlices(n - 1)

width == SumSlices(Len(keySlices))

BufIndices == 0..(width * height - 1)

\* const lastLine = this.width * (this.height - 1)
lastLine == width * (height - 1)

\* alphaOpaque | bgrInteger, with alphaOpaque = 0xff000000
WithAlphaOpaque(bgrInteger) ==
    << BitOr(255, bgrInteger \div Pow2(24)), bgrInteger % Pow2(24) >>

\* the lines are moved by one pixel less than a line
ShiftedLineShort(buf, i) == buf[i + width - 1]

\* this.buf32[i] = this.buf32[i + this.width], for i < lastLine
ShiftedLine(buf, i) == buf[i + width]

\* the colour of pixel i of the slice of a key in the bottom line
BottomPixel(key, i, audio, midiC, last) ==
    LET bgrInteger ==
            IF last[key] # midiC[key]
            THEN (IF midiC[key] # 0 THEN midiC[key] ELSE last[key])
            ELSE (IF i < 1 \/ i >= keySlices[key] - 1
                  THEN midiC[key] ELSE audio[key])
    IN  WithAlphaOpaque(bgrInteger)

\* the index j at which pixel i of a key's slice is stored
BottomIndex(key, i) == lastLine + SumSlices(key - 1) + i

\* Spectrogram.update(audioColors, midiColors): the buffer afterwards
\* (a store beyond the buffer is dropped)
SpectrogramUpdate(buf, last, audio, midiC) ==
    [j \in BufIndices |->
        IF \E key \in VizKeys : \E i \in 0..(keySlices[key] - 1) :
               BottomIndex(key, i) = j
        THEN LET key == CHOOSE k \in VizKeys :
                            \E i \in 0..(keySlices[k] - 1) :
                                BottomIndex(k, i) = j
             IN  BottomPixel(key, j - BottomIndex(key, 0), audio, midiC, last)
        ELSE IF j < lastLine THEN ShiftedLine(buf, j) ELSE buf[j]]

\* PianoKeyboard.update: fill and stroke of every key
KeyboardUpdate(audio, midiC) ==
    [key \in VizKeys |->
        [fill |-> bgrIntegerToHex(audio[key], 0),
         stroke |-> bgrIntegerToHex(midiC[key], 85)]]

\* colours handed to Spectrogram.update directly
SgAudioColors == { 255, 255 * Pow2(8) }

SgMidiColors == { 0, 255 * Pow2(16) }

\* pianolizer.port.onmessage: levels.set(event.data)
LevelsMessage ==
    /\ pianolizer # 0
    /\ \E data \in LevelVectors : uiLevels' = data
    /\ UNCHANGED << startOffset, uiMidi, audioColors, midiColors, lastDraw,
                    animating, keyStyles, frames, buf32, lastMidiColors,
                    bufBefore, lastMidiBefore >>
    /\ UNCHANGED << dftVars, maVars, wVars, tmVars, uiVars, bellVars >>

\* input.onmidimessage: note on (0x90, full velocity) or note off (0x80)
MidiMessage ==
    /\ \E key \in VizKeys, velocity \in {0, 2} :
           uiMidi' = [uiMidi EXCEPT ![key] = velocity]
    /\ UNCHANGED << startOffset, uiLevels, audioColors, midiColors, lastDraw,
                    animating, keyStyles, frames, buf32, lastMidiColors,
                    bufBefore, lastMidiBefore >>
    /\ UNCHANGED << dftVars, maVars, wVars, tmVars, uiVars, bellVars >>

\* rotationInput.oninput: palette.rotation = parseInt(event.target.value)
SetRotation ==
    /\ \E n \in (0 - MaxRotation)..MaxRotation :
           startOffset' = RotationSetter(n)
    /\ UNCHANGED << uiLevels, uiMidi, audioColors, midiColors, lastDraw,
                    animating, keyStyles, frames, buf32, lastMidiColors,
                    bufBefore, lastMidiBefore >>
    /\ UNCHANGED << dftVars, maVars, wVars, tmVars, uiVars, bellVars >>

\* spectrogram.update(audio, midiC) and its record
Paint(audio, midiC) ==
    /\ buf32' = SpectrogramUpdate(buf32, lastMidiColors, audio, midiC)
    /\ lastMidiColors' = midiC
    /\ bufBefore' = buf32
    /\ lastMidiBefore' = lastMidiColors
    /\ audioColors' = audio
    /\ midiColors' = midiC
    /\ frames' = frames + 1

\* draw(currentTimestamp): one frame of the animation loop; an exception
\* leaves before requestAnimationFrame(draw) is reached
Draw ==
    /\ animating
    /\ frames < MaxDraws
    /\ IF ~ (dom.playDisabled \/ ~ dom.paused)
       THEN /\ lastDraw' = "skipped"
            /\ frames' = frames + 1
            /\ UNCHANGED << audioColors, midiColors, animating, keyStyles,
                            buf32, lastMidiColors, bufBefore,
                            lastMidiBefore >>
       ELSE IF GetKeyColorsThrows(startOffset, uiLevels)
                 \/ GetKeyColorsThrows(startOffset, uiMidi)
       THEN /\ lastDraw' = "threw"
            /\ animating' = FALSE
            /\ frames' = frames + 1
            /\ UNCHANGED << audioColors, midiColors, keyStyles, buf32,
                            lastMidiColors, bufBefore, lastMidiBefore >>
       ELSE /\ lastDraw' = "painted"
            /\ keyStyles' = KeyboardUpdate(GetKeyColors(startOffset, uiLevels),
                                           GetKeyColors(startOffset, uiMidi))
            /\ Paint(GetKeyColors(startOffset, uiLevels),
                     GetKeyColors(startOffset, uiMidi))
            /\ UNCHANGED animating
    /\ UNCHANGED << startOffset, uiLevels, uiMidi >>
    /\ UNCHANGED << dftVars, maVars, wVars, tmVars, uiVars, bellVars >>

\* Spectrogram.update called with any colours
SpectrogramPaint ==
    /\ frames < MaxFrames
    /\ \E audio \in [VizKeys -> SgAudioColors],
          midiC \in [VizKeys -> SgMidiColors] :
           Paint(audio, midiC)
    /\ lastDraw' = "painted"
    /\ UNCHANGED << startOffset, uiLevels, uiMidi, animating, keyStyles >>
    /\ UNCHANGED << dftVars, maVars, wVars, tmVars, uiVars, bellVars >>

\* app(): palette, keyboard and spectrogram constructed, levels and midi
\* zeroed, the first frame requested
InitViz ==
    /\ startOffset = 0
    /\ uiLevels = [key \in VizKeys |-> 0]
    /\ uiMidi = [key \in VizKeys |-> 0]
    /\ audioColors = [key \in VizKeys |-> 0]
    /\ midiColors = [key \in VizKeys |-> 0]
    /\ lastDraw = "none"
    /\ animating = TRUE
    /\ keyStyles = [key \in VizKeys |->
                       [fill |-> << 0, 0, 0 >>, stroke |-> << 0, 0, 0 >>]]
    /\ frames = 0
    /\ buf32 = [j \in BufIndices |-> << 0, 0 >>]
    /\ lastMidiColors = [key \in VizKeys |-> 0]
    /\ bufBefore = [j \in BufIndices |-> << 0, 0 >>]
    /\ lastMidiBefore = [key \in VizKeys |-> 0]

\* the page after a completed play click: graph built, audio playing
InitUIPlaying ==
    /\ audioContext = 1
    /\ pianolizer = 1
    /\ audioSource = 1
    /\ microphoneSource = 0
    /\ created = [audioContext |-> 1, pianolizer |-> 1, audioSource |-> 1,
                  microphoneSource |-> 0]
    /\ connected = {SRC_TO_NODE, SRC_TO_DEST}
    /\ dom = [paused |-> FALSE, playDisabled |-> FALSE,
              restartDisabled |-> FALSE, selected |-> "url"]
    /\ tasks = << [caller |-> "play", pc |-> "done",
                   setupAudio |-> "resolved", ready |-> TRUE] >>

(***************************************************************************)
(* The doorbell monitor (src/cpp/doorbell.cpp).  Time is left out: an      *)
(* armed alarm may expire between any two statements of the capture loop.  *)
(***************************************************************************)
BUFFER_SIZE == 64

\* SENSITIVITY (.1) and the two output levels, in tenths of full scale
SENSITIVITY == 1

MaxReads == 4

OutputLevels == {0, SENSITIVITY, 2 * SENSITIVITY}

\* what snd_pcm_readi returns: a full block, a short one, nothing, an error
ReadResults == {BUFFER_SIZE, BUFFER_SIZE - 1, 0, -1}

\* what snd_pcm_recover returns
RecoverResults == {0, -1}

DOWNSTAIRS == "DOWNSTAIRS DOORBELL"

UPSTAIRS == "UPSTAIRS DOORBELL"

ARMED == "alarm(COOLDOWN)"

SIGALRM == "SIGALRM"

\* only a failed read is skipped, a short one is processed
ReadBlockShortAccepted ==
    /\ loopPc = "read"
    /\ shouldExit = 0
    /\ reads < MaxReads
    /\ \E err \in ReadResults, recovered \in RecoverResults :
        /\ reads' = reads + 1
        /\ IF err < 0
           THEN /\ loopPc' = IF recovered < 0 THEN "thrown" ELSE "read"
                /\ input' = 0
                /\ captured' = captured
           ELSE /\ loopPc' = "process"
                /\ input' = reads + 1
                /\ captured' = IF err = BUFFER_SIZE
                               THEN Append(captured, reads + 1) ELSE captured
    /\ UNCHANGED << alarmTriggered, shouldExit, alarmPending, output, message,
                    processed, bellLog >>
    /\ UNCHANGED notified
    /\ UNCHANGED << dftVars, maVars, wVars, tmVars, uiVars, vizVars >>

\* while (!shouldExit) { snd_pcm_readi ... continue; }
ReadBlock ==
    /\ loopPc = "read"
    /\ shouldExit = 0
    /\ reads < MaxReads
    /\ \E err \in ReadResults, recovered \in RecoverResults :
        /\ reads' = reads + 1
        /\ IF err # BUFFER_SIZE
           THEN /\ loopPc' = IF err < 0 /\ recovered < 0
                             THEN "thrown" ELSE "read"
                /\ input' = 0
                /\ captured' = captured
           ELSE /\ loopPc' = "process"
                /\ input' = reads + 1
                /\ captured' = Append(captured, reads + 1)
    /\ UNCHANGED << alarmTriggered, shouldExit, alarmPending, output, message,
                    processed, bellLog >>
    /\ UNCHANGED notified
    /\ UNCHANGED << dftVars, maVars, wVars, tmVars, uiVars, vizVars >>

\* the loop condition fails: snd_pcm_close(handle); alarm(0);
ExitLoop ==
    /\ loopPc = "read"
    /\ shouldExit # 0
    /\ loopPc' = "exited"
    /\ alarmPending' = FALSE
    /\ UNCHANGED << alarmTriggered, shouldExit, reads, input, output, message,
                    captured, processed, bellLog >>
    /\ UNCHANGED notified
    /\ UNCHANGED << dftVars, maVars, wVars, tmVars, uiVars, vizVars >>

\* output = sdft.process(input.data(), BUFFER_SIZE, AVERAGE_WINDOW)
SdftProcess ==
    /\ loopPc = "process"
    /\ \E o \in OutputLevels \X OutputLevels : output' = o
    /\ processed' = Append(processed, input)
    /\ loopPc' = "check"
    /\ UNCHANGED << alarmTriggered, shouldExit, alarmPending, reads, input,
                    message, captured, bellLog >>
    /\ UNCHANGED notified
    /\ UNCHANGED << dftVars, maVars, wVars, tmVars, uiVars, vizVars >>

\* if (alarmTriggered) continue;
CheckCooldownIgnored ==
    /\ loopPc = "check"
    /\ loopPc' = "threshold"
    /\ UNCHANGED << alarmTriggered, shouldExit, alarmPending, reads, input,
                    output, message, captured, processed, bellLog >>
    /\ UNCHANGED notified
    /\ UNCHANGED << dftVars, maVars, wVars, tmVars, uiVars, vizVars >>

CheckCooldown ==
    /\ loopPc = "check"
    /\ loopPc' = IF alarmTriggered # 0 THEN "read" ELSE "threshold"
    /\ UNCHANGED << alarmTriggered, shouldExit, alarmPending, reads, input,
                    output, message, captured, processed, bellLog >>
    /\ UNCHANGED notified
    /\ UNCHANGED << dftVars, maVars, wVars, tmVars, uiVars, vizVars >>

\* the two tests in the other order
ThresholdUpstairsFirst ==
    /\ loopPc = "threshold"
    /\ IF output[2] >= SENSITIVITY
       THEN loopPc' = "alarmReset" /\ message' = UPSTAIRS
       ELSE IF output[1] >= SENSITIVITY
       THEN loopPc' = "alarmReset" /\ message' = DOWNSTAIRS
       ELSE loopPc' = "read" /\ message' = message
    /\ UNCHANGED << alarmTriggered, shouldExit, alarmPending, reads, input,
                    output, captured, processed, bellLog >>
    /\ UNCHANGED notified
    /\ UNCHANGED << dftVars, maVars, wVars, tmVars, uiVars, vizVars >>

\* if (output[0] >= SENSITIVITY) ... else if (output[1] >= SENSITIVITY) ...
Threshold ==
    /\ loopPc = "threshold"
    /\ IF output[1] >= SENSITIVITY
       THEN loopPc' = "alarmReset" /\ message' = DOWNSTAIRS
       ELSE IF output[2] >= SENSITIVITY
       THEN loopPc' = "alarmReset" /\ message' = UPSTAIRS
       ELSE loopPc' = "read" /\ message' = message
    /\ UNCHANGED << alarmTriggered, shouldExit, alarmPending, reads, input,
                    output, captured, processed, bellLog >>
    /\ UNCHANGED notified
    /\ UNCHANGED << dftVars, maVars, wVars, tmVars, uiVars, vizVars >>

\* alarmReset(): alarmTriggered = 1;
AlarmResetFlag ==
    /\ loopPc = "alarmReset"
    /\ alarmTriggered' = 1
    /\ loopPc' = "alarm(0)"
    /\ UNCHANGED << shouldExit, alarmPending, reads, input, output, message,
                    captured, processed, bellLog >>
    /\ UNCHANGED notified
    /\ UNCHANGED << dftVars, maVars, wVars, tmVars, uiVars, vizVars >>

\* alarmReset(): alarm(0);
AlarmResetCancel ==
    /\ loopPc = "alarm(0)"
    /\ alarmPending' = FALSE
    /\ loopPc' = "alarm(COOLDOWN)"
    /\ UNCHANGED << alarmTriggered, shouldExit, reads, input, output, message,
                    captured, processed, bellLog >>
    /\ UNCHANGED notified
    /\ UNCHANGED << dftVars, maVars, wVars, tmVars, uiVars, vizVars >>

\* alarmReset() without its last statement
AlarmResetArmForgotten ==
    /\ loopPc = "alarm(COOLDOWN)"
    /\ alarmPending' = FALSE
    /\ bellLog' = Append(bellLog, ARMED)
    /\ loopPc' = "pushNotification"
    /\ UNCHANGED << alarmTriggered, shouldExit, reads, input, output, message,
                    captured, processed >>
    /\ UNCHANGED notified
    /\ UNCHANGED << dftVars, maVars, wVars, tmVars, uiVars, vizVars >>

\* alarmReset(): alarm(COOLDOWN);
AlarmResetArm ==
    /\ loopPc = "alarm(COOLDOWN)"
    /\ alarmPending' = TRUE
    /\ bellLog' = Append(bellLog, ARMED)
    /\ loopPc' = "pushNotification"
    /\ UNCHANGED << alarmTriggered, shouldExit, reads, input, output, message,
                    captured, processed >>
    /\ UNCHANGED notified
    /\ UNCHANGED << dftVars, maVars, wVars, tmVars, uiVars, vizVars >>

\* pushNotification("DOWNSTAIRS DOORBELL") or ("UPSTAIRS DOORBELL")
PushNotification ==
    /\ loopPc = "pushNotification"
    /\ bellLog' = Append(bellLog, message)
    /\ notified' = Append(notified, [block |-> input, message |-> message])
    /\ loopPc' = "read"
    /\ UNCHANGED << alarmTriggered, shouldExit, alarmPending, reads, input,
                    output, message, captured, processed >>
    /\ UNCHANGED << dftVars, maVars, wVars, tmVars, uiVars, vizVars >>

Running == loopPc \notin {"exited", "thrown"}

\* the armed alarm expires and SIGALRM is delivered: alarmHandler
AlarmHandler ==
    /\ Running
    /\ alarmPending
    /\ alarmPending' = FALSE
    /\ alarmTriggered' = 0
    /\ bellLog' = Append(bellLog, SIGALRM)
    /\ UNCHANGED << shouldExit, loopPc, reads, input, output, message,
                    captured, processed >>
    /\ UNCHANGED notified
    /\ UNCHANGED << dftVars, maVars, wVars, tmVars, uiVars, vizVars >>

\* SIGINT or SIGTERM is delivered: signalHandler
SignalHandler ==
    /\ Running
    /\ shouldExit = 0
    /\ shouldExit' = 1
    /\ UNCHANGED << alarmTriggered, alarmPending, loopPc, reads, input, output,
                    message, captured, processed, bellLog >>
    /\ UNCHANGED notified
    /\ UNCHANGED << dftVars, maVars, wVars, tmVars, uiVars, vizVars >>

\* monitorDoorbell() about to enter its loop
InitDoorbell ==
    /\ alarmTriggered = 0
    /\ shouldExit = 0
    /\ alarmPending = FALSE
    /\ loopPc = "read"
    /\ reads = 0
    /\ input = 0
    /\ output = << 0, 0 >>
    /\ message = ""
    /\ captured = << >>
    /\ processed = << >>
    /\ bellLog = << >>
    /\ notified = << >>

\* the later components at rest
IdleLater == IdleTuning /\ InitUI /\ InitViz /\ InitDoorbell

(***************************************************************************)
(* Specifications                                                          *)
(***************************************************************************)
vars == << dftVars, maVars, wVars, laterVars >>

InitDFT ==
    /\ rb = RingBuffer(RequestedSize)
    /\ dft = [b \in BinIds |-> << 0, 0 >>]
    /\ previousSample = [b \in BinIds |-> 0]
    /\ written = << >>

\* the wrapper of the first specifications: default keys, runtime ready
InitWrapperDefault ==
    /\ InitWrapper
    /\ keysNum = KeysNumDefault
    /\ heapReady

Init == InitDFT /\ InitMA /\ InitWrapperDefault /\ IdleLater

Next == ProcessSample

Spec == Init /\ [][Next]_vars

NextMA == ChangeWindow \/ UpdateAverages

SpecMA == Init /\ [][NextMA]_vars

NextWrapper == ProcessBlock \/ RuntimeInitialized

\* a wrapper with either number of keys, before or after the runtime
\* has published its memory
InitAnyWrapper == InitDFT /\ InitMA /\ InitWrapper /\ IdleLater

SpecWrapper == InitAnyWrapper /\ [][NextWrapper]_vars

NextTuning == ConstructAnalyzer \/ ProcessAccepted

InitAnyTuning ==
    /\ InitDFT /\ InitMA /\ InitWrapperDefault /\ InitTuning /\ InitUI
    /\ InitViz /\ InitDoorbell

SpecTuning == InitAnyTuning /\ [][NextTuning]_vars

NextUI ==
    \/ ClickPlay \/ ClickRestart \/ SelectSource \/ DropFile
    \/ FetchDone \/ ModuleAdded \/ MicrophoneGranted \/ MicrophoneDenied

SpecUI == Init /\ [][NextUI]_vars

NextDraw == LevelsMessage \/ MidiMessage \/ SetRotation \/ Draw

\* the page before the first play click, or playing
InitDraw ==
    /\ InitDFT /\ InitMA /\ InitWrapperDefault /\ IdleTuning /\ InitViz
    /\ InitDoorbell
    /\ (InitUI \/ InitUIPlaying)

SpecDraw == InitDraw /\ [][NextDraw]_vars

NextSpectrogram == SpectrogramPaint

SpecSpectrogram == Init /\ [][NextSpectrogram]_vars

NextDoorbell ==
    \/ ReadBlock \/ ExitLoop \/ SdftProcess \/ CheckCooldown \/ Threshold
    \/ AlarmResetFlag \/ AlarmResetCancel \/ AlarmResetArm \/ PushNotification
    \/ AlarmHandler \/ SignalHandler

SpecDoorbell == Init /\ [][NextDoorbell]_vars

\* the monitor keeps executing alarmReset once it has entered it, and an
\* armed timer eventually fires
FairDoorbell ==
    /\ WF_vars(AlarmResetFlag) /\ WF_vars(AlarmResetCancel)
    /\ WF_vars(AlarmResetArm) /\ WF_vars(PushNotification)
    /\ WF_vars(AlarmHandler)

SpecDoorbellFair == Init /\ [][NextDoorbell]_vars /\ FairDoorbell

(***************************************************************************)
(* Input stream helpers                                                    *)
(***************************************************************************)
nWritten == Len(written)

\* x[i], with everything before the first write taken as 0
X(i) == IF i >= 1 /\ i <= nWritten THEN written[i] ELSE 0

\* the ring of capacity C after the first m samples of the stream
RECURSIVE RBReplay(_, _)
RBReplay(C, m) ==
    IF m = 0 THEN RingBuffer(C) ELSE RBWrite(RBReplay(C, m - 1), written[m])

\* Sum_{j = 0 .. m-1} x[n-j] * W^(j+1)
RECURSIVE WindowedSumUpTo(_, _)
WindowedSumUpTo(b, m) ==
    IF m = 0 THEN << 0, 0 >>
    ELSE CAdd(WindowedSumUpTo(b, m - 1),
              CMul(<< X(nWritten - (m - 1)), 0 >>,
                   CPow(Coeff(Tuning[b].k, Tuning[b].N), m)))

WindowedSum(b) == WindowedSumUpTo(b, Tuning[b].N)

(***************************************************************************)
(* Claims about the sample buffer and the bins (specification Spec)        *)
(***************************************************************************)
MaxCapacity == 5

\* C1: for a ring buffer of any capacity C, after any sequence of writes
\* (also more than C of them, so that the ring wraps and evicts), read(lag)
\* for every lag <= C is the sample written lag writes before the latest.
C1_ReadReturnsLagthWrite ==
    /\ \A lag \in 0..RBCapacity(rb) :
           lag < nWritten => RBRead(rb, lag) = written[nWritten - lag]
    /\ \A C \in 1..MaxCapacity : \A lag \in 0..C :
           lag < nWritten =>
               RBRead(RBReplay(C, nWritten), lag) = written[nWritten - lag]

\* the ring has wrapped, the first sample is evicted, and the oldest
\* readable sample differs from the latest one
C1_Witness ==
    /\ nWritten > RBSlots(rb)
    /\ written[1] = -1
    /\ RBRead(rb, RBCapacity(rb)) = 2
    /\ RBRead(rb, 0) = 1

\* C2: in the per-sample step (write x[n], then per bin read and update) the
\* old sample handed to a bin with window N is exactly x[n-N], for every
\* bin, also the one whose N is the capacity of the buffer.
C2_OldSampleIsXnMinusN ==
    \A b \in BinIds :
        nWritten > Tuning[b].N =>
            previousSample[b] = written[nWritten - Tuning[b].N]

\* a bin whose window is the whole capacity gets a nonzero old sample that
\* differs from the sample just written and from its neighbours
C2_Witness ==
    \E b \in BinIds :
        /\ Tuning[b].N = RBCapacity(rb)
        /\ nWritten > Tuning[b].N + 1
        /\ previousSample[b] = 2
        /\ written[nWritten] = 1
        /\ written[nWritten - Tuning[b].N + 1] = -1
        /\ written[nWritten - Tuning[b].N - 1] = -1

\* C3: with an exact unit rotation and the accumulator starting at 0, after
\* any number of steps the accumulator of the recursion equals the direct
\* windowed sum Sum_{j=0..N-1} x[n-j] * W^(j+1) of the last N samples.
C3_RecursionIsWindowedSum ==
    \A b \in BinIds : dft[b] = WindowedSum(b)

\* the N = 4, k = 1 bin after a nonzero sample has left its window
C3_Witness ==
    /\ Tuning[2].N = 4 /\ Tuning[2].k = 1
    /\ nWritten > Tuning[2].N
    /\ X(nWritten - Tuning[2].N) # 0
    /\ dft[2] # << 0, 0 >>
    /\ dft[2][2] # 0

\* C4: while no more than N samples have been written (the one just written
\* included, so at most N-1 before it), the N-lagged read of a bin is 0.
C4_UnderRunReadsZero ==
    \A b \in BinIds :
        nWritten <= Tuning[b].N => previousSample[b] = 0

\* only nonzero samples were written, and a bin still got 0 as old sample
C4_Witness ==
    /\ nWritten >= 1
    /\ \A i \in 1..nWritten : written[i] # 0
    /\ \E b \in BinIds : nWritten = Tuning[b].N /\ previousSample[b] = 0
    /\ \E b \in BinIds : nWritten < Tuning[b].N /\ previousSample[b] = 0

(***************************************************************************)
(* Claims about the moving averages (specification SpecMA)                 *)
(***************************************************************************)
nUpdates(ch) == Len(raw[ch])

\* the sum of the w latest raw values of a channel, missing history as 0
RECURSIVE SumLast(_, _)
SumLast(ch, w) ==
    IF w = 0 THEN 0
    ELSE (IF nUpdates(ch) - (w - 1) >= 1
          THEN raw[ch][nUpdates(ch) - (w - 1)] ELSE 0) + SumLast(ch, w - 1)

LastRaw(ch) == raw[ch][nUpdates(ch)]

\* the w latest raw values of a channel exist and all equal c
LastAllEqual(ch, w, c) ==
    /\ nUpdates(ch) >= w
    /\ \A i \in 1..nUpdates(ch) : i > nUpdates(ch) - w => raw[ch][i] = c

\* the Fast average after m updates with the constant c, from 0, window w
RECURSIVE FMAIter(_, _, _)
FMAIter(c, w, m) ==
    IF m = 0 THEN Frac(0, 1) ELSE FMAUpdate(FMAIter(c, w, m - 1), w, c)

HeavyReadsConstant(ch, c) ==
    LastAllEqual(ch, Max(hmaWindow, 1), c) => FracEq(HMARead(ch), c)

\* Fast part of C8, for one update: the filter has seen only c, from 0,
\* under the window w >= 2 (0 < alpha < 1), and is updated with c again
FastConstantUpdate(ch, c) ==
    /\ fmaWindow >= 2
    /\ fmaWindow' = fmaWindow
    /\ \A i \in 1..nUpdates(ch) : raw[ch][i] = c
    /\ fmaAvg[ch] = FMAIter(c, fmaWindow, nUpdates(ch))
    /\ raw'[ch] = Append(raw[ch], c)

FastStrictlyCloser(ch, c) ==
    /\ FracLess(FracDist(fmaAvg'[ch], c), FracDist(fmaAvg[ch], c))
    /\ ~ FracEq(fmaAvg'[ch], c)

C10_ZeroWindowPassthrough ==
    \A ch \in Channels :
        /\ HMARead(ch).den # 0
        /\ FMARead(ch).den # 0
        /\ (maLast = "update" /\ maRequest = 0) =>
               /\ fmaWindow = 0 /\ hmaWindow = 0
               /\ FracEq(FMARead(ch), LastRaw(ch))
               /\ FracEq(HMARead(ch), LastRaw(ch))

\* window 0, and the latest values differ from the ones before them
C10_Witness ==
    /\ maLast = "update"
    /\ maRequest = 0
    /\ nUpdates(1) >= 3
    /\ LastRaw(1) = 0 /\ raw[1][nUpdates(1) - 1] = 1
    /\ LastRaw(2) = 1 /\ raw[2][nUpdates(2) - 1] = 0
    /\ FracEq(HMARead(1), 0) /\ FracEq(FMARead(2), 1)

C6_SamplesUnchanged ==
    wResult = "returned" => callerAfter = callerBefore

(***************************************************************************)
(* Claims about the Tuning Mapper and construction (specification          *)
(* SpecTuning)                                                             *)
(***************************************************************************)
nKeys == Len(tmPolicy)

\* 2 * N * | k * sampleRate / N - f | for key i
TwiceDeviationTimesN(i) ==
    2 * Abs(tmMapping[i].k * tmSampleRate - tmPolicy[i].f * tmMapping[i].N)

\* C11 as stated: for every sample rate, frequency f and bandwidth bw the
\* mapper accepts, the pair N = round(sampleRate / bw),
\* k = round(f * N / sampleRate) has | k * sampleRate / N - f | <= bw / 2.
C11_Original ==
    tmState = "constructed" =>
        \A i \in 1..nKeys :
            TwiceDeviationTimesN(i) <= tmPolicy[i].bw * tmMapping[i].N

\* C11 as amended: the same bound for every accepted configuration whose
\* N = round(sampleRate / bw) is not below sampleRate / bw (N was not
\* rounded down), as for the doorbell (727 and 977 Hz, 2 Hz, 8000).
C11_DeviationWithinHalfBandwidth ==
    tmState = "constructed" =>
        \A i \in 1..nKeys :
            /\ tmMapping[i].N = Round(tmSampleRate, tmPolicy[i].bw)
            /\ tmMapping[i].N * tmPolicy[i].bw >= tmSampleRate =>
                   TwiceDeviationTimesN(i) <= tmPolicy[i].bw * tmMapping[i].N

\* the doorbell's two bins, each exactly bw / 2 = 1 Hz off its frequency
C11_Witness ==
    /\ tmState = "constructed"
    /\ tmSampleRate = DoorbellSampleRate
    /\ tmPolicy = DoorbellPolicy
    /\ tmMapping = << [k |-> 364, N |-> 4000], [k |-> 489, N |-> 4000] >>
    /\ \A i \in 1..nKeys :
           TwiceDeviationTimesN(i) = tmPolicy[i].bw * tmMapping[i].N

\* the configuration has a fault: the sample rate is not positive, a
\* bandwidth rounds N to 0, or a frequency puts k outside [0, N)
FaultyConfiguration ==
    \/ tmSampleRate <= 0
    \/ \E i \in 1..nKeys : Round(tmSampleRate, tmPolicy[i].bw) = 0
    \/ \E i \in 1..nKeys :
           LET N == Round(tmSampleRate, tmPolicy[i].bw)
               k == Round(tmPolicy[i].f * N, tmSampleRate)
           IN  k < 0 \/ k >= N

\* C12: construction fails, and no analyzer that accepts a block exists,
\* whenever the sample rate is not positive, a bandwidth rounds N to 0 or
\* a frequency puts k outside [0, N); every bin of a constructed analyzer
\* has N > 0 and 0 <= k < N with k the rounded value itself, not a clamped
\* one.
C12_InvalidConfigurationFails ==
    /\ (tmState # "new" /\ FaultyConfiguration) =>
           /\ tmState = "failed"
           /\ tmMapping = << >>
    /\ tmState # "constructed" => tmBlocks = 0
    /\ tmState = "constructed" =>
           \A i \in 1..nKeys :
               /\ tmMapping[i].N > 0
               /\ tmMapping[i].k >= 0 /\ tmMapping[i].k < tmMapping[i].N
               /\ tmMapping[i].N = Round(tmSampleRate, tmPolicy[i].bw)
               /\ tmMapping[i].k =
                      Round(tmPolicy[i].f * tmMapping[i].N, tmSampleRate)

\* a construction that failed only because the second key's k is N
C12_Witness ==
    /\ tmState = "failed"
    /\ tmSampleRate > 0
    /\ nKeys = 2
    /\ \A i \in 1..nKeys : Round(tmSampleRate, tmPolicy[i].bw) > 0
    /\ ValidBin(frequencyAndBandwidthToKAndN(tmSampleRate, tmPolicy[1].f,
                                             tmPolicy[1].bw))
    /\ LET bin == frequencyAndBandwidthToKAndN(tmSampleRate, tmPolicy[2].f,
                                               tmPolicy[2].bw)
       IN  bin.k = bin.N

(***************************************************************************)
(* Silence (specification Spec)                                            *)
(***************************************************************************)
\* amplitudeSpectrum = |X|, squared; a level is 0 exactly when this is 0
AmplitudeSquared(b) == dft[b][1] * dft[b][1] + dft[b][2] * dft[b][2]

\* the m latest samples are all zero (missing history counts as zero)
TrailingSilence(m) == \A j \in 0..(m - 1) : X(nWritten - j) = 0

C14_SetupAudioResolvesOnceReady ==
    /\ \A i \in 1..Len(tasks) :
           /\ tasks[i].setupAudio # "rejected"
           /\ tasks[i].setupAudio = "resolved" => tasks[i].ready
    /\ created.audioContext <= 1
    /\ created.pianolizer <= 1
    /\ created.audioSource <= 1
    /\ (\E i \in 1..Len(tasks) : tasks[i].setupAudio = "resolved") =>
           /\ created.audioContext = 1
           /\ created.pianolizer = 1
           /\ created.audioSource = 1

(***************************************************************************)
(* Claims about the visualization (specifications SpecDraw and             *)
(* SpecSpectrogram)                                                        *)
(***************************************************************************)
\* field i (1 red, 2 green, 3 blue) of a 0x00BBGGRR colour
Field(colour, i) == (colour \div Pow2(8 * (i - 1))) % 256

\* the palette entry (n + key) mod paletteLength, key counted from 0
EntryFor(offset, key) == PaletteData[((offset + key) % Len(PaletteData)) + 1]

\* a frame is drawn with the page visible
FrameDrawn == frames' = frames + 1 /\ (dom.playDisabled \/ ~ dom.paused)

WellFormedColors(colours, lv, offset) ==
    /\ Len(colours) = Len(lv)
    /\ \A k \in 1..Len(lv) :
           /\ colours[k] \div Pow2(24) = 0
           /\ \A i \in 1..3 :
                  /\ RoundScaled(lv[k], EntryFor(offset, k - 1)[i]) \in 0..255
                  /\ Field(colours[k], i) =
                         RoundScaled(lv[k], EntryFor(offset, k - 1)[i])

\* C15: for every level vector the analyzer may deliver, levels above 1
\* included, getKeyColors returns one value per level and each is a
\* well-formed 0x00BBGGRR colour: every field lies in 0..255 and comes from
\* its own palette component alone, nothing is carried into the next field
\* or into the top byte.
C15_KeyColorsWellFormed ==
    [][ (FrameDrawn /\ lastDraw' = "painted") =>
            /\ WellFormedColors(audioColors', uiLevels, startOffset)
            /\ WellFormedColors(midiColors', uiMidi, startOffset) ]_vars

\* C16: for every integer rotation offset n given to the rotation setter
\* (negative, zero or beyond the palette length) and every key,
\* getKeyColors takes palette entry (n + key) mod paletteLength, which
\* exists, and returns, so that the drawing loop keeps running.
C16_RotationSelectsExistingEntry ==
    [][ FrameDrawn =>
            /\ lastDraw' = "painted"
            /\ animating'
            /\ \A k \in VizKeys :
                   /\ audioColors'[k] =
                          Packed(EntryFor(startOffset, k - 1), uiLevels[k])
                   /\ midiColors'[k] =
                          Packed(EntryFor(startOffset, k - 1), uiMidi[k]) ]_vars

\* C18: Spectrogram.update scrolls by one line and repaints the bottom line
\* only: every row above the last holds what the row below it held before,
\* the pixels rewritten are exactly the width pixels of the last row, each
\* opaque, key i taking keySlices[i] consecutive pixels in key order, and
\* nothing is stored outside the width * height buffer.
C18_ScrollsOneLine ==
    lastDraw = "painted" =>
        /\ DOMAIN buf32 = BufIndices
        /\ \A j \in BufIndices : j < lastLine => buf32[j] = bufBefore[j + width]
        /\ UNION { { BottomIndex(key, i) : i \in 0..(keySlices[key] - 1) } :
                       key \in VizKeys }
               = lastLine..(width * height - 1)
        /\ \A key \in VizKeys : \A i \in 0..(keySlices[key] - 1) :
               LET j == lastLine + SumSlices(key - 1) + i
               IN  /\ buf32[j][1] = 255
                   /\ \E c \in { audioColors[key], midiColors[key],
                                  lastMidiBefore[key] } :
                          buf32[j] = << 255, c % Pow2(24) >>
                   /\ (lastMidiBefore[key] = midiColors[key]
                           /\ i >= 1 /\ i < keySlices[key] - 1)
                          => buf32[j][2] = audioColors[key] % Pow2(24)
        /\ lastMidiColors = midiColors

\* three different lines after as many updates as the picture has lines;
\* the first key shows its audio colour between two border pixels
C18_Witness ==
    /\ frames = height
    /\ buf32[1] # buf32[width + 1] /\ buf32[width + 1] # buf32[2 * width + 1]
    /\ buf32[1] # buf32[2 * width + 1]
    /\ lastMidiBefore = midiColors
    /\ midiColors[1] # 0
    /\ buf32[lastLine + 1] = << 255, audioColors[1] >>
    /\ buf32[lastLine] = << 255, midiColors[1] >>
    /\ buf32[lastLine + 2] = << 255, midiColors[1] >>

(***************************************************************************)
(* The wrapper's shared buffer (specification SpecWrapper)                 *)
(***************************************************************************)
\* C17: after any sequence of process calls with varying block lengths,
\* each call that returns has made the shared buffer match its block:
\* samplesBufferSize and the length of samplesView are samples.length, and
\* the native analyzer is given exactly the block's values, in order.
C17_BufferMatchesBlock ==
    wResult = "returned" =>
        /\ samplesBufferSize = Len(callerBefore)
        /\ samplesView # UndefinedView
        /\ samplesView.len = Len(callerBefore)
        /\ nativeInput = callerBefore

\* the same for the calls with a block that is not empty
NonEmptyBlockMatches ==
    (wResult = "returned" /\ Len(callerBefore) > 0) =>
        /\ samplesBufferSize = Len(callerBefore)
        /\ samplesView # UndefinedView
        /\ samplesView.len = Len(callerBefore)
        /\ samplesView.ptr = samplesBuffer
        /\ nativeInput = callerBefore

(***************************************************************************)
(* The doorbell's cooldown                                                 *)
(***************************************************************************)
Notifications == {DOWNSTAIRS, UPSTAIRS}

\* the positions of bellLog, up to n, that hold an event of the set
Positions(events, n) == {i \in 1..n : bellLog[i] \in events}

DeliveredBetween(i, j) == \E m \in (i + 1)..(j - 1) : bellLog[m] = SIGALRM

\* C20 as stated: between any two notifications there is a SIGALRM
\* delivery.
C20_Original ==
    \A i, j \in Positions(Notifications, Len(bellLog)) :
        i < j => DeliveredBetween(i, j)

\* C20: every notification is pushed right after its own alarm was armed,
\* before any further arming, and between the arming of the alarm of one
\* notification and every later arming or notification there is a SIGALRM
\* delivery; the delivery may precede the push of the earlier notification.
C20_DeliveryAfterArming ==
    /\ \A j \in Positions(Notifications, Len(bellLog)) :
           /\ j > 1
           /\ bellLog[j - 1] \in {ARMED, SIGALRM}
           /\ \E i \in Positions({ARMED}, j) :
                  Positions(Notifications \cup {ARMED}, j - 1)
                      \cap ((i + 1)..(j - 1)) = {}
    /\ \A i \in Positions({ARMED}, Len(bellLog)) :
           \A j \in Positions({ARMED}, Len(bellLog)) :
               i < j => DeliveredBetween(i, j)
    /\ \A i \in Positions({ARMED}, Len(bellLog)) :
           \A j \in Positions(Notifications, Len(bellLog)) :
               (i < j /\ Positions(Notifications, j - 1) \cap (i..j) # {})
                   => DeliveredBetween(i, j)

\* two notifications were pushed, the alarm of the first one having
\* expired after its push
C20_Witness ==
    \E i, j \in Positions(Notifications, Len(bellLog)) :
        /\ i < j
        /\ DeliveredBetween(i, j)
        /\ bellLog[i] # bellLog[j]

\* the capture loop is inside alarmReset, between its first statement and
\* the end of its last one
InAlarmReset == loopPc \in {"alarm(0)", "alarm(COOLDOWN)"}

\* C21 as stated: whenever alarmTriggered is 1 a COOLDOWN alarm is pending.
C21_Original == alarmTriggered = 1 => alarmPending

CooldownArmed == (Running /\ alarmTriggered = 1 /\ ~ InAlarmReset) => alarmPending

\* C21: while the monitor runs, alarmTriggered is 1 with no alarm pending
\* only inside alarmReset, between its first and its last statement; so
\* every cooldown of a running monitor ends with alarmTriggered back at 0
\* once the timer fires.
C21_CooldownEnds ==
    /\ [] CooldownArmed
    /\ (alarmTriggered = 1) ~> (alarmTriggered = 0 \/ ~ Running)

\* a cooldown has ended and a later block has raised a notification again
C21_Witness ==
    \E i, j \in Positions(Notifications, Len(bellLog)) :
        /\ i < j
        /\ \E m \in Positions({ARMED}, Len(bellLog)) :
               m < i /\ DeliveredBetween(i, j)
        /\ alarmTriggered = 0

(***************************************************************************)
(* The doorbell's threshold rule                                           *)
(***************************************************************************)
NoNotification == ""

\* the notification the rule asks for, given the two levels
RuleOf(o) ==
    IF o[1] >= SENSITIVITY THEN DOWNSTAIRS
    ELSE IF o[2] >= SENSITIVITY THEN UPSTAIRS
    ELSE NoNotification

\* the loop is between the threshold tests and the end of pushNotification
Raising ==
    loopPc \in {"alarmReset", "alarm(0)", "alarm(COOLDOWN)", "pushNotification"}

NotifiedBlocks == {notified[n].block : n \in 1..Len(notified)}

\* at most one notification per block, each for a processed block, and the
\* one being raised is the rule's for the block just processed
RaisedByRule ==
    /\ \A m, n \in 1..Len(notified) :
           m < n => notified[m].block < notified[n].block
    /\ \A n \in 1..Len(notified) :
           \E b \in 1..Len(processed) : processed[b] = notified[n].block
    /\ Raising =>
           /\ Len(processed) > 0
           /\ input = processed[Len(processed)]
           /\ input \notin NotifiedBlocks
           /\ message = RuleOf(output)
           /\ message \in Notifications

\* the steps the loop takes for one block: with no cooldown the tests are made, they raise
\* what the rule says or go on to the next read, and what is raised is
\* pushed, once, before the next read
RuleStep ==
    /\ (loopPc = "check" /\ alarmTriggered = 0 /\ loopPc' # loopPc) =>
           loopPc' = "threshold"
    /\ (loopPc = "threshold" /\ loopPc' # loopPc) =>
           IF RuleOf(output) = NoNotification
           THEN loopPc' = "read" /\ notified' = notified
           ELSE loopPc' = "alarmReset" /\ message' = RuleOf(output)
    /\ notified' # notified =>
           /\ loopPc = "pushNotification"
           /\ notified' = Append(notified, [block |-> processed[Len(processed)],
                                            message |-> RuleOf(output)])
           /\ bellLog' = Append(bellLog, RuleOf(output))
    /\ (Raising /\ ~ Raising') => (notified' # notified /\ loopPc' = "read")
    /\ (~ Raising /\ Raising') => loopPc = "threshold"

\* C22: for each block processed while no cooldown is active the monitor
\* raises the downstairs notification if output[0] >= SENSITIVITY,
\* otherwise the upstairs one if output[1] >= SENSITIVITY, otherwise none;
\* at most one notification per block.
C22_ThresholdRule == [] RaisedByRule /\ [][RuleStep]_vars

\* downstairs was raised for a block with both levels at the threshold,
\* upstairs for an earlier one, and some block raised nothing
C22_Witness ==
    /\ Len(notified) = 2
    /\ notified[1].message = UPSTAIRS
    /\ notified[2] = [block |-> input, message |-> DOWNSTAIRS]
    /\ output = << SENSITIVITY, SENSITIVITY >>
    /\ Len(processed) > 2

(***************************************************************************)
(* The doorbell's blocks                                                   *)
(***************************************************************************)
\* C23: the blocks passed to process are the reads that returned exactly
\* BUFFER_SIZE frames, each once and in capture order, a cooldown being
\* active or not; only the block just captured may still be waiting, and a
\* short or failed read is never passed.
C23_EveryFullBlockProcessed ==
    /\ \A b \in 1..Len(captured) : captured[b] \in 1..reads
    /\ \A a, b \in 1..Len(captured) : a < b => captured[a] < captured[b]
    /\ IF loopPc = "process"
       THEN /\ Len(captured) > 0
            /\ processed = SubSeq(captured, 1, Len(captured) - 1)
            /\ input = captured[Len(captured)]
       ELSE processed = captured

\* a block was processed during the cooldown of an earlier notification,
\* and a short or failed read was skipped
C23_Witness ==
    /\ alarmTriggered = 1
    /\ alarmPending
    /\ loopPc = "check"
    /\ Len(notified) > 0
    /\ processed[Len(processed)] > notified[Len(notified)].block
    /\ reads > Len(captured)

(***************************************************************************)
(* The wrapper's native buffers (specification SpecWrapper)                *)
(***************************************************************************)
\* at most one sample buffer is live, and it is the wrapper's
OneLiveBuffer ==
    /\ Cardinality(allocated) <= 1
    /\ allocated = IF samplesBuffer = Undefined THEN {} ELSE {samplesBuffer}

\* what one process call does to the native heap, samplesBufferSize being
\* the block length of the previous call (undefined before the first one):
\* nothing, or the buffer it had is released and a new one is the only one
AllocationStep ==
    (wResult' # "none" /\ heapReady' = heapReady) =>
        IF Len(callerBefore') = samplesBufferSize
        THEN /\ allocated' = allocated
             /\ samplesBuffer' = samplesBuffer
             /\ samplesBufferSize' = samplesBufferSize
        ELSE /\ samplesBuffer # Undefined => samplesBuffer \in allocated
             /\ samplesBuffer' # Undefined
             /\ allocated' = {samplesBuffer'}
             /\ Len(mem'[samplesBuffer']) = Len(callerBefore')

\* C24: a process call allocates and frees only when its block length
\* differs from the previous call's: a call with the same length does
\* neither, a call with another length frees the buffer it replaces, once
\* and while it is live, and at most one sample buffer is ever live.
C24_AllocatesOnlyOnLengthChange == [] OneLiveBuffer /\ [][AllocationStep]_vars

\* a buffer of one sample was allocated, then freed and replaced by the
\* buffer of the last call, of two samples
C24_Witness ==
    /\ wResult = "returned"
    /\ allocated = {2}
    /\ samplesBuffer = 2
    /\ Len(mem[1]) = 1
    /\ Len(callerBefore) = 2

\* C25: a process call whose adjustSamplesBuffer fails for want of a
\* HEAPF32 view leaves the recorded buffer size, the buffer pointer and the
\* samples view as they were before the call.
C25_FailureLeavesBufferState ==
    [][(wResult' = "threw" /\ ~ heapReady /\ ~ heapReady'
            /\ Len(callerBefore') # samplesBufferSize) =>
           /\ samplesBufferSize' = samplesBufferSize
           /\ samplesBuffer' = samplesBuffer
           /\ samplesView' = samplesView]_vars

(***************************************************************************)
(* The page's input selection (specification SpecUI)                       *)
(***************************************************************************)
MicrophoneSelected == dom.selected = "microphone"

\* C26: whenever the selected input is not a microphone entry no microphone
\* stream is connected to the analyzer node, and at most one microphone
\* source is ever created.
C26_MicrophoneOnlyWhileSelected ==
    /\ ~ MicrophoneSelected => MIC_TO_NODE \notin connected
    /\ created.microphoneSource <= 1

\* its two parts, one by one
NoStreamUnlessSelected ==
    ~ MicrophoneSelected => MIC_TO_NODE \notin connected

OneMicrophoneSource == created.microphoneSource <= 1

\* C27: the play and restart buttons are disabled exactly when the current
\* input is a microphone or 'MIDI input only', and enabled whenever it is
\* an audio file, a dropped one included.
C27_ButtonsFollowInput ==
    /\ dom.playDisabled = (dom.selected \in {"microphone", "midi"})
    /\ dom.restartDisabled = (dom.selected \in {"microphone", "midi"})

====
